---- MODULE Spec2Model ----
(***************************************************************************)
(* The playback synchronisation engine of the QT storytelling front end    *)
(* (the browser script of the repository): the emotion schedule, the cue   *)
(* timers, the emotion overlay and the pause / resume / select handlers.   *)
(*                                                                         *)
(* Time.  The source holds audio times as float seconds and timer delays   *)
(* as milliseconds, delay = (time - currentTime) * 1000.  Here every time  *)
(* is an integer number of milliseconds (a cue time of 1.5 s is 1500), so  *)
(* the factor 1000 is the unit of the representation.  The wall clock      *)
(* advances in steps of TickMs; a timer whose remaining delay reached 0    *)
(* runs before the clock advances again.                                   *)
(*                                                                         *)
(* Timer ids.  The browser hands out increasing ids.  Ids are only stored  *)
(* in `timeouts` and only compared for equality by clearTimeout, so a new  *)
(* cue timer gets the least id that no pending cue timer and no entry of   *)
(* `timeouts` holds.  The id of an overlay timer is dropped by the source  *)
(* (line 60), so the overlay timers are kept without ids, as the queue of  *)
(* their remaining delays: they all have the same delay, so the browser    *)
(* runs them in the order of their creation.                               *)
(*                                                                         *)
(* Specifications.  Spec: the scheduler (calls of the page, cue and        *)
(* overlay timers, the audio element, which may stall); SpecIdeal: the     *)
(* same with an audio position that advances at timer rate.  The callbacks *)
(* of the animation clock only write the displayed image and are left out  *)
(* of these two.  SpecPage: clicks, pause() and resume() with the          *)
(* animation clock.  SpecLoad: the main function from its start (the       *)
(* loading of the stories), then the animation clock.                      *)
(***************************************************************************)
EXTENDS Integers, Sequences, FiniteSets, TLC

\* ------------------------------------------------------------ CONFIG ----

\* CONFIG.intervals.emotionDelay: how long an emotion remains displayed (ms)
emotionDelay == 1000

\* granularity of the wall clock of the model (ms): half an emotionDelay, so
\* that two activations can lie less than emotionDelay apart
TickMs == emotionDelay \div 2

\* CONFIG.emotionImageMap (own keys of the object literal; the key and file
\* name written with a grave accent in the source are written "colere" here)
emotionImageMap ==
  [ affection |-> "affection.png", colere |-> "colere.png",
    confusion |-> "confusion.png", cri |-> "cri.png",
    embarassement |-> "embarassement.png", joie |-> "joie.png",
    neutre |-> "neutre.png", peur |-> "peur.png",
    surprise |-> "surprise.png", timide |-> "timide.png",
    tristesse |-> "tristesse.png" ]

\* CONFIG.faceImages
faceImages ==
  [ blinkingClosed |-> "normal.png", blinkingOpen |-> "normal4.png",
    normalClosed |-> "normal2.png", normalOpen |-> "normal3.png" ]

\* The value null / undefined of the source.
Null == "null"

\* Keys every object literal inherits from Object.prototype: the lookup
\* CONFIG.emotionImageMap[emotion] finds a (truthy) function under them.
ObjectPrototypeKeys == {"constructor", "toString", "valueOf", "hasOwnProperty"}
InheritedValue == "function () { [native code] }"

\* CONFIG.emotionImageMap[emotion], as JavaScript property access evaluates it
Lookup(emotion) ==
  IF emotion \in DOMAIN emotionImageMap THEN emotionImageMap[emotion]
  ELSE IF emotion \in ObjectPrototypeKeys THEN InheritedValue
  ELSE Null

\* JavaScript truthiness of a looked-up value
Truthy(v) == v # Null /\ v # ""

\* ----------------------------------------------------- CONFIG.stories ----
\* The catalog after downloadStories(): story documents as the generator
\* writes them (story 0: increasing cue times, the last one at the end of the
\* audio, any text as emotion tag) and as an author may write them (story 1:
\* unordered, equal times, a cue at time 0).  "rire" is no key of
\* emotionImageMap; "constructor" is no key of it either, but a key of
\* Object.prototype.  `duration` is the length of the narration audio the
\* document refers to.  Story 2 is a short narration with one cue.
Stories ==
  [ i \in 0..2 |->
      IF i = 0
      THEN [ duration |-> 1000,
             emotions |-> << [time |-> 500,  emotion |-> "joie"],
                             [time |-> 1000, emotion |-> "rire"] >> ]
      ELSE IF i = 1
      THEN [ duration |-> 1000,
             emotions |-> << [time |-> 500,  emotion |-> "surprise"],
                             [time |-> 0,    emotion |-> "neutre"],
                             [time |-> 500,  emotion |-> "colere"],
                             [time |-> 1000, emotion |-> "constructor"] >> ]
      ELSE [ duration |-> 500,
             emotions |-> << [time |-> 500, emotion |-> "constructor"] >> ] ]

StoryIds == DOMAIN Stories
CueIds(st) == 1..Len(Stories[st].emotions)

\* A cue object is referred to by <<story, place in the story's array>>.
Cue(ref) == Stories[ref[1]].emotions[ref[2]]

\* story.emotions: the array of the cue objects of story `index`
Emotions(index) == [k \in CueIds(index) |-> <<index, k>>]

Range(seq) == {seq[j] : j \in DOMAIN seq}
AllCues == UNION {Range(Emotions(st)) : st \in StoryIds}

\* ------------------------------------------------------------- state ----
VARIABLES
  consumed,        \* consumed[ref]: the `consumed` property of cue object ref
  emotionSchedule, \* the array emotionSchedule refers to: a sequence of cue objects
  timeouts,        \* the array `timeouts`: ids pushed by scheduleEmotions
  timers,          \* the browser's pending cue timers (set at line 98, not yet run or cleared)
  clearTimers,     \* the browser's pending overlay timers (set at line 60): remaining delays
  currentEmotion,  \* overlay emotion, Null when none
  faceImage,       \* CONFIG.elements.faceImage.src, without the qtBase prefix
  isPaused, hasEnded, keepMouthShut,
  audioSrc,        \* the story whose narration the audio element holds
  currentTime,     \* audio.currentTime (ms)
  audioPlaying,    \* the audio element is playing (not paused, not at its end)
  endedQueued,     \* the element reached its end and its `ended` event is queued
  stories,         \* CONFIG.stories: the story documents loaded so far
  blinking, closedMouth,
  boot,            \* the async main function: where it is, what it has fetched
  \* history (not program state)
  lastOp,          \* the last operation that ran, and what it found
  fires,           \* fires[ref]: runs of the cue's trigger since the last selectStory
  cycle            \* the resume cycle: what the last resume that armed triggers found

vars == << consumed, emotionSchedule, timeouts, timers, clearTimers,
           currentEmotion, faceImage, isPaused, hasEnded, keepMouthShut, audioSrc,
           currentTime, audioPlaying, endedQueued, stories, blinking,
           closedMouth, boot, lastOp, fires, cycle >>

\* The program state as one record, so that a handler is a function on it.
St ==
  [ consumed |-> consumed, emotionSchedule |-> emotionSchedule,
    timeouts |-> timeouts, timers |-> timers, clearTimers |-> clearTimers,
    currentEmotion |-> currentEmotion, faceImage |-> faceImage,
    isPaused |-> isPaused, hasEnded |-> hasEnded,
    keepMouthShut |-> keepMouthShut, audioSrc |-> audioSrc,
    currentTime |-> currentTime, audioPlaying |-> audioPlaying,
    endedQueued |-> endedQueued, stories |-> stories,
    blinking |-> blinking, closedMouth |-> closedMouth ]

Becomes(s) ==
  /\ consumed' = s.consumed
  /\ emotionSchedule' = s.emotionSchedule
  /\ timeouts' = s.timeouts
  /\ timers' = s.timers
  /\ clearTimers' = s.clearTimers
  /\ currentEmotion' = s.currentEmotion
  /\ faceImage' = s.faceImage
  /\ isPaused' = s.isPaused
  /\ hasEnded' = s.hasEnded
  /\ keepMouthShut' = s.keepMouthShut
  /\ audioSrc' = s.audioSrc
  /\ currentTime' = s.currentTime
  /\ audioPlaying' = s.audioPlaying
  /\ endedQueued' = s.endedQueued
  /\ stories' = s.stories
  /\ blinking' = s.blinking
  /\ closedMouth' = s.closedMouth

Is(s) ==
  /\ consumed = s.consumed
  /\ emotionSchedule = s.emotionSchedule
  /\ timeouts = s.timeouts
  /\ timers = s.timers
  /\ clearTimers = s.clearTimers
  /\ currentEmotion = s.currentEmotion
  /\ faceImage = s.faceImage
  /\ isPaused = s.isPaused
  /\ hasEnded = s.hasEnded
  /\ keepMouthShut = s.keepMouthShut
  /\ audioSrc = s.audioSrc
  /\ currentTime = s.currentTime
  /\ audioPlaying = s.audioPlaying
  /\ endedQueued = s.endedQueued
  /\ stories = s.stories
  /\ blinking = s.blinking
  /\ closedMouth = s.closedMouth

\* ------------------------------------------------- browser primitives ----
\* no story: an index below those of CONFIG.stories
NoStory == 0 - 1

\* the least id not held by a pending timer or by `timeouts`
FreshId(s) ==
  LET used == {t.id : t \in s.timers} \cup {s.timeouts[j] : j \in DOMAIN s.timeouts}
  IN  CHOOSE n \in 1..(Cardinality(used) + 1) :
        /\ n \notin used
        /\ \A m \in 1..(n - 1) : m \in used

\* setTimeout(callback, delay) of line 98: the callback is that of cue `ref`
SetTimeout(s, ref, delay) ==
  [s EXCEPT !.timers = @ \cup {[id |-> FreshId(s), cue |-> ref, rem |-> delay]}]

\* setTimeout(callback, delay) of line 60
SetClearTimeout(s, delay) == [s EXCEPT !.clearTimers = Append(@, delay)]

\* clearTimeout(id)
ClearTimeout(s, id) == [s EXCEPT !.timers = {t \in @ : t.id # id}]

\* audio.play(): playback starts at the current position, from the start
\* when the element is at its end
AudioPlay(s) ==
  [s EXCEPT !.audioPlaying = TRUE,
            !.currentTime = IF @ >= Stories[s.audioSrc].duration THEN 0 ELSE @]

\* audio.pause()
AudioPause(s) == [s EXCEPT !.audioPlaying = FALSE]

\* audio.src = ...: the element loads the new resource: playback stops, the
\* position is 0 again and the element's queued events are dropped
AudioSetSrc(s, st) ==
  [s EXCEPT !.audioSrc = st, !.currentTime = 0, !.audioPlaying = FALSE,
            !.endedQueued = FALSE]

\* ------------------------------------------------------------ source ----

\* displayEmotion(emotion)
displayEmotion(s, emotion) ==
  IF Truthy(Lookup(emotion))
  THEN SetClearTimeout([s EXCEPT !.currentEmotion = emotion,
                                 !.faceImage = Lookup(emotion)],
                       emotionDelay)
  ELSE s

\* a faulty clearScheduledEmotions(): the list is emptied, the timers are not
\* cancelled
clearScheduledEmotions_noCancel(s) == [s EXCEPT !.timeouts = << >>]

\* clearScheduledEmotions()
RECURSIVE clearEach(_, _)
clearEach(s, j) ==
  IF j > Len(s.timeouts) THEN s
  ELSE clearEach(ClearTimeout(s, s.timeouts[j]), j + 1)

clearScheduledEmotions(s) == [clearEach(s, 1) EXCEPT !.timeouts = << >>]

\* faulty bodies of the forEach: the consumed flag is not read; the delay is
\* not taken from the audio position; a cue at the audio position is armed
scheduleTimepoint_ignoreConsumed(s, timepoint) ==
  LET delay == Cue(timepoint).time - s.currentTime
  IN  IF delay > 0
      THEN LET timeoutId == FreshId(s)
           IN  [s EXCEPT !.timers = @ \cup {[id |-> timeoutId, cue |-> timepoint,
                                            rem |-> delay]},
                         !.timeouts = Append(@, timeoutId)]
      ELSE s

scheduleTimepoint_absoluteDelay(s, timepoint) ==
  LET delay == Cue(timepoint).time
  IN  IF ~s.consumed[timepoint] /\ delay > 0
      THEN LET timeoutId == FreshId(s)
           IN  [s EXCEPT !.timers = @ \cup {[id |-> timeoutId, cue |-> timepoint,
                                            rem |-> delay]},
                         !.timeouts = Append(@, timeoutId)]
      ELSE s

scheduleTimepoint_armsAtPosition(s, timepoint) ==
  LET delay == Cue(timepoint).time - s.currentTime
  IN  IF ~s.consumed[timepoint] /\ delay >= 0
      THEN LET timeoutId == FreshId(s)
           IN  [s EXCEPT !.timers = @ \cup {[id |-> timeoutId, cue |-> timepoint,
                                            rem |-> delay]},
                         !.timeouts = Append(@, timeoutId)]
      ELSE s

\* a faulty body: no second trigger for a delay that already has one
scheduleTimepoint_oneTriggerPerDelay(s, timepoint) ==
  LET delay == Cue(timepoint).time - s.currentTime
  IN  IF ~s.consumed[timepoint] /\ delay > 0 /\ ~\E t \in s.timers : t.rem = delay
      THEN LET timeoutId == FreshId(s)
           IN  [s EXCEPT !.timers = @ \cup {[id |-> timeoutId, cue |-> timepoint,
                                            rem |-> delay]},
                         !.timeouts = Append(@, timeoutId)]
      ELSE s

\* the body of the forEach of scheduleEmotions for one timepoint
scheduleTimepoint(s, timepoint) ==
  LET delay == Cue(timepoint).time - s.currentTime
  IN  IF ~s.consumed[timepoint] /\ delay > 0
      THEN LET timeoutId == FreshId(s)
           IN  [SetTimeout(s, timepoint, delay)
                  EXCEPT !.timeouts = Append(@, timeoutId)]
      ELSE s

RECURSIVE forEachTimepoint(_, _)
forEachTimepoint(s, j) ==
  IF j > Len(s.emotionSchedule) THEN s
  ELSE forEachTimepoint(scheduleTimepoint(s, s.emotionSchedule[j]), j + 1)

\* a faulty scheduleEmotions(): the stale triggers are not cleared first
scheduleEmotions_noClear(s) == forEachTimepoint(s, 1)

\* scheduleEmotions()
scheduleEmotions(s) == forEachTimepoint(clearScheduledEmotions(s), 1)

\* a faulty pauseAudio(): the pending triggers are left armed
pauseAudio_noClear(s) ==
  [AudioPause(s) EXCEPT !.isPaused = TRUE, !.keepMouthShut = TRUE]

\* pauseAudio()
pauseAudio(s) ==
  clearScheduledEmotions(
    [AudioPause(s) EXCEPT !.isPaused = TRUE, !.keepMouthShut = TRUE])

\* a faulty resumeAudio(): hasEnded is not read
resumeAudio_ignoresEnded(s) ==
  scheduleEmotions(AudioPlay([s EXCEPT !.isPaused = FALSE, !.keepMouthShut = FALSE]))

\* resumeAudio()
resumeAudio(s) ==
  LET s1 == [s EXCEPT !.isPaused = FALSE]
  IN  IF ~s1.hasEnded
      THEN scheduleEmotions(AudioPlay([s1 EXCEPT !.keepMouthShut = FALSE]))
      ELSE s1

\* CONFIG.stories[index]: the document at place `index` (from 0), undefined
\* outside the array
StoryAt(s, index) ==
  IF index \in 0..(Len(s.stories) - 1) THEN s.stories[index + 1] ELSE NoStory

\* line 174 throws a TypeError: `story` is undefined, it has no `emotions`
selectStoryThrows(s, index) == StoryAt(s, index) = NoStory

\* a faulty selectStory(index): the consumed flags are not reset
selectStory_keepsConsumed(s, index) ==
  IF selectStoryThrows(s, index) THEN s
  ELSE AudioSetSrc([s EXCEPT !.emotionSchedule = Emotions(StoryAt(s, index))],
                   StoryAt(s, index))

\* a faulty selectStory(index): the old schedule is dropped before the story
\* is looked at
selectStory_dropsScheduleFirst(s, index) ==
  IF selectStoryThrows(s, index) THEN [s EXCEPT !.emotionSchedule = << >>]
  ELSE LET story == StoryAt(s, index)
           schedule == Emotions(story)
       IN  AudioSetSrc(
             [s EXCEPT !.emotionSchedule = schedule,
                       !.consumed = [ref \in AllCues |->
                                       IF ref \in Range(schedule) THEN FALSE ELSE @[ref]]],
             story)

\* selectStory(index): when it throws, nothing has been assigned yet
selectStory(s, index) ==
  IF selectStoryThrows(s, index) THEN s
  ELSE LET story == StoryAt(s, index)
           schedule == Emotions(story)
       IN  AudioSetSrc(
             [s EXCEPT !.emotionSchedule = schedule,
                       !.consumed = [ref \in AllCues |->
                                       IF ref \in Range(schedule) THEN FALSE ELSE @[ref]]],
             story)

\* the click listener of a story button (lines 153-157)
\* a faulty listener: the story is selected and played, no trigger re-armed
storyButtonClick_selectOnly(s, index) ==
  AudioPlay([selectStory(s, index) EXCEPT !.hasEnded = FALSE,
                                          !.isPaused = FALSE,
                                          !.keepMouthShut = FALSE])

storyButtonClick(s, index) ==
  resumeAudio([selectStory(s, index) EXCEPT !.hasEnded = FALSE])

\* a faulty render callback: isPaused is not read
render_ignoresPause(s) ==
  IF ~Truthy(s.currentEmotion)
  THEN [s EXCEPT !.faceImage =
          IF s.blinking
          THEN IF s.closedMouth \/ s.keepMouthShut
               THEN faceImages.blinkingClosed ELSE faceImages.blinkingOpen
          ELSE IF s.closedMouth \/ s.keepMouthShut
               THEN faceImages.normalClosed ELSE faceImages.normalOpen]
  ELSE s

\* a faulty render callback: keepMouthShut is not read
render_ignoresForcedShut(s) ==
  IF ~s.isPaused /\ ~Truthy(s.currentEmotion)
  THEN [s EXCEPT !.faceImage =
          IF s.blinking
          THEN IF s.closedMouth
               THEN faceImages.blinkingClosed ELSE faceImages.blinkingOpen
          ELSE IF s.closedMouth
               THEN faceImages.normalClosed ELSE faceImages.normalOpen]
  ELSE s

\* the callback of the render interval (lines 67-77)
render(s) ==
  IF ~s.isPaused /\ ~Truthy(s.currentEmotion)
  THEN [s EXCEPT !.faceImage =
          IF s.blinking
          THEN IF s.closedMouth \/ s.keepMouthShut
               THEN faceImages.blinkingClosed ELSE faceImages.blinkingOpen
          ELSE IF s.closedMouth \/ s.keepMouthShut
               THEN faceImages.normalClosed ELSE faceImages.normalOpen]
  ELSE s

\* the callbacks of the blink interval and of its timeout (lines 80-83)
blinkStart(s) == [s EXCEPT !.blinking = TRUE]
blinkEnd(s) == [s EXCEPT !.blinking = FALSE]

\* the callbacks of the mouth interval and of its timeout (lines 86-89)
mouthClose(s) == [s EXCEPT !.closedMouth = TRUE]
mouthOpen(s) == [s EXCEPT !.closedMouth = FALSE]

\* the callback of a cue timer (lines 98-101)
cueCallback(s, timepoint) ==
  displayEmotion([s EXCEPT !.consumed[timepoint] = TRUE], Cue(timepoint).emotion)

\* the callback of the overlay timer (line 60)
clearCallback(s) == [s EXCEPT !.currentEmotion = Null]

\* a faulty listener: keepMouthShut is left as it is
endedListener_mouthFree(s) == [s EXCEPT !.hasEnded = TRUE]

\* the `ended` listener (lines 184-188)
endedListener(s) == [s EXCEPT !.keepMouthShut = TRUE, !.hasEnded = TRUE]

\* ------------------------------------------------------------ actions ----
\* History variables.  lastOp: the operation, the story or cue it was about,
\* and, for the calls of the page, whether a cue timer was pending and whether
\* a cue of the story was consumed just before it ran.
NoCue == << NoStory, 0 >>
NoFires == [ref \in AllCues |-> 0]

Op(name, st, ref, pending, wasConsumed) ==
  [op |-> name, story |-> st, cue |-> ref, pending |-> pending,
   wasConsumed |-> wasConsumed]
Event(name, ref) == Op(name, ref[1], ref, FALSE, FALSE)

Pending == timers # {}
ConsumedOf(st) == \E ref \in Range(Emotions(st)) : consumed[ref]

\* cycle: `live` from a resume that armed triggers to the next selectStory;
\* `open` while no pause followed it; afterPause: it found the scheduler
\* paused; pos: the audio position it read; armed: the cues it found
\* unconsumed and later than pos; elapsed: the wall time since (up to
\* MaxElapsed).
NoCycle ==
  [live |-> FALSE, open |-> FALSE, afterPause |-> FALSE, pos |-> 0,
   elapsed |-> 0, armed |-> {}]
MaxCueTime == CHOOSE m \in {Cue(ref).time : ref \in AllCues} :
                \A ref \in AllCues : Cue(ref).time <= m
MaxElapsed == MaxCueTime + TickMs

NewCycle(schedule, flags, pos) ==
  [live |-> TRUE, open |-> TRUE, afterPause |-> isPaused, pos |-> pos,
   elapsed |-> 0,
   armed |-> {ref \in Range(schedule) : ~flags[ref] /\ Cue(ref).time > pos}]

CycleElapse ==
  IF cycle.open /\ cycle.elapsed < MaxElapsed
  THEN [cycle EXCEPT !.elapsed = @ + TickMs]
  ELSE cycle

\* the module-level state of lines 41-49 with an audio element that has
\* loaded nothing yet
Fresh ==
  [ consumed |-> [ref \in AllCues |-> FALSE],
    emotionSchedule |-> << >>,
    timeouts |-> << >>, timers |-> {}, clearTimers |-> << >>,
    currentEmotion |-> Null, faceImage |-> "index.html",
    isPaused |-> FALSE, hasEnded |-> FALSE, keepMouthShut |-> TRUE,
    audioSrc |-> NoStory, currentTime |-> 0, audioPlaying |-> FALSE,
    endedQueued |-> FALSE, stories |-> << >>,
    blinking |-> FALSE, closedMouth |-> FALSE ]

\* the async main function (lines 1, 190-192).  pc: the statement it is at;
\* storyIndex: the listing fetched at line 133; inFlight: the places of the
\* listing whose document fetch (line 136) has started and not completed;
\* clockStarted: startClock() has set up the three intervals.
BootStart ==
  [pc |-> "fetchIndex", storyIndex |-> << >>, inFlight |-> {}, clockStarted |-> FALSE]

\* the index lists stories 0 and 1 (the page with its clock: 0 and 2)
Catalog == << 0, 1 >>
PageCatalog == << 0, 2 >>

\* lines 190-192 have run on the listing: its stories are loaded, the first one
\* is selected and the clock is started
Booted(listing) ==
  [pc |-> "running", storyIndex |-> listing, inFlight |-> {}, clockStarted |-> TRUE]

\* the places of CONFIG.stories: one button per place (lines 143-168)
Indices == 0..(Len(stories) - 1)

Init ==
  /\ Is(selectStory([Fresh EXCEPT !.stories = Catalog], 0))
  /\ boot = Booted(Catalog)
  /\ lastOp = Op("init", 0, NoCue, FALSE, FALSE)
  /\ fires = NoFires
  /\ cycle = NoCycle

InitPage ==
  /\ Is(selectStory([Fresh EXCEPT !.stories = PageCatalog], 0))
  /\ boot = Booted(PageCatalog)
  /\ lastOp = Op("init", 0, NoCue, FALSE, FALSE)
  /\ fires = NoFires
  /\ cycle = NoCycle

\* selectStory(index) called on its own
SelectStory(index) ==
  /\ Becomes(selectStory(St, index))
  /\ lastOp' = Op("selectStory", StoryAt(St, index), NoCue, Pending,
                  ConsumedOf(StoryAt(St, index)))
  /\ fires' = NoFires
  /\ cycle' = NoCycle
  /\ UNCHANGED boot

\* selectStory(index) called with an index outside CONFIG.stories: it throws
SelectStoryOutOfRange(index) ==
  /\ selectStoryThrows(St, index)
  /\ Becomes(selectStory(St, index))
  /\ lastOp' = Op("selectStoryThrew", NoStory, NoCue, Pending, FALSE)
  /\ UNCHANGED << fires, cycle, boot >>

\* a click on the button of story `index`
StoryButtonClick(index) ==
  /\ Becomes(storyButtonClick(St, index))
  /\ lastOp' = Op("click", StoryAt(St, index), NoCue, Pending,
                  ConsumedOf(StoryAt(St, index)))
  /\ fires' = NoFires
  /\ cycle' = NewCycle(Emotions(StoryAt(St, index)), [ref \in AllCues |-> FALSE], 0)
  /\ UNCHANGED boot

PauseAudio ==
  /\ Becomes(pauseAudio(St))
  /\ lastOp' = Op("pause", audioSrc, NoCue, Pending, FALSE)
  /\ cycle' = [cycle EXCEPT !.open = FALSE, !.elapsed = 0, !.armed = {}]
  /\ UNCHANGED fires
  /\ UNCHANGED boot

ResumeAudio ==
  /\ Becomes(resumeAudio(St))
  /\ lastOp' = Op("resume", audioSrc, NoCue, Pending, FALSE)
  /\ cycle' = IF hasEnded THEN cycle
              ELSE NewCycle(emotionSchedule, consumed, currentTime')
  /\ UNCHANGED fires
  /\ UNCHANGED boot

\* pause() and resume() called back to back
PauseThenResume ==
  /\ Becomes(resumeAudio(pauseAudio(St)))
  /\ lastOp' = Op("pauseResume", audioSrc, NoCue, Pending, FALSE)
  /\ cycle' = IF hasEnded
              THEN [cycle EXCEPT !.open = FALSE, !.elapsed = 0, !.armed = {}]
              ELSE [NewCycle(emotionSchedule, consumed, currentTime')
                      EXCEPT !.afterPause = TRUE]
  /\ UNCHANGED fires
  /\ UNCHANGED boot

\* the browser runs a due cue timer
FireCue(t) ==
  /\ t.rem <= 0
  /\ Becomes(cueCallback([St EXCEPT !.timers = @ \ {t}], t.cue))
  /\ lastOp' = Event("cue", t.cue)
  /\ fires' = [fires EXCEPT ![t.cue] = IF @ < 2 THEN @ + 1 ELSE @]
  /\ UNCHANGED cycle
  /\ UNCHANGED boot

\* the browser runs the overlay timer that is due
FireClear ==
  /\ clearTimers # << >> /\ Head(clearTimers) <= 0
  /\ Becomes(clearCallback([St EXCEPT !.clearTimers = Tail(@)]))
  /\ lastOp' = Event("clear", NoCue)
  /\ UNCHANGED << fires, cycle >>
  /\ UNCHANGED boot

\* the browser dispatches the queued `ended` event
AudioEnded ==
  /\ endedQueued
  /\ Becomes(endedListener([St EXCEPT !.endedQueued = FALSE]))
  /\ lastOp' = Event("ended", NoCue)
  /\ UNCHANGED << fires, cycle >>
  /\ UNCHANGED boot

\* nothing is due: TickMs of wall time pass
CanAdvance ==
  /\ ~endedQueued
  /\ \A t \in timers : t.rem > 0
  /\ \A j \in DOMAIN clearTimers : clearTimers[j] > 0

Elapse(s) ==
  [s EXCEPT !.timers = {[t EXCEPT !.rem = @ - TickMs] : t \in @},
            !.clearTimers = [j \in DOMAIN @ |-> @[j] - TickMs]]

\* the audio element plays TickMs of the narration, up to its end
AudioAdvance(s) ==
  IF ~s.audioPlaying THEN s
  ELSE LET pos == s.currentTime + TickMs
           dur == Stories[s.audioSrc].duration
       IN  IF pos >= dur
           THEN [s EXCEPT !.currentTime = dur, !.audioPlaying = FALSE,
                          !.endedQueued = TRUE]
           ELSE [s EXCEPT !.currentTime = pos]

\* wall clock and audio clock advance together
Tick ==
  /\ CanAdvance
  /\ Becomes(AudioAdvance(Elapse(St)))
  /\ lastOp' = Event("tick", NoCue)
  /\ cycle' = CycleElapse
  /\ UNCHANGED fires
  /\ UNCHANGED boot

\* the wall clock advances while the playing audio does not (it is still
\* loading or buffering): timers run ahead of the audio position
Stall ==
  /\ CanAdvance
  /\ audioPlaying
  /\ Becomes(Elapse(St))
  /\ lastOp' = Event("tick", NoCue)
  /\ cycle' = CycleElapse
  /\ UNCHANGED fires
  /\ UNCHANGED boot

\* The animation clock.  The three intervals of startClock() run from the
\* start of the page on, so their phase relative to the clicks and to the cue
\* timers is arbitrary: their callbacks are steps of their own.  A blink
\* lasts blinkDuration < blink and a mouth closure mouthCloseDuration <
\* mouthClose, so the timeout that ends one runs before the interval starts
\* the next: it is pending exactly while blinking (closedMouth) is set.
Render ==
  /\ boot.clockStarted
  /\ Becomes(render(St))
  /\ lastOp' = Event("render", NoCue)
  /\ UNCHANGED << fires, cycle, boot >>

BlinkStart ==
  /\ boot.clockStarted /\ ~blinking
  /\ Becomes(blinkStart(St))
  /\ lastOp' = Event("tick", NoCue)
  /\ UNCHANGED << fires, cycle, boot >>

BlinkEnd ==
  /\ boot.clockStarted /\ blinking
  /\ Becomes(blinkEnd(St))
  /\ lastOp' = Event("tick", NoCue)
  /\ UNCHANGED << fires, cycle, boot >>

MouthClose ==
  /\ boot.clockStarted /\ ~closedMouth
  /\ Becomes(mouthClose(St))
  /\ lastOp' = Event("tick", NoCue)
  /\ UNCHANGED << fires, cycle, boot >>

MouthOpen ==
  /\ boot.clockStarted /\ closedMouth
  /\ Becomes(mouthOpen(St))
  /\ lastOp' = Event("tick", NoCue)
  /\ UNCHANGED << fires, cycle, boot >>

NextIdeal ==
  \/ \E index \in Indices : SelectStory(index)
  \/ \E index \in Indices : StoryButtonClick(index)
  \/ PauseAudio
  \/ ResumeAudio
  \/ PauseThenResume
  \/ \E t \in timers : FireCue(t)
  \/ FireClear
  \/ AudioEnded
  \/ Tick

Next == NextIdeal \/ Stall

\* the scheduler: browser timers against an audio element that may stall
Spec == Init /\ [][Next]_vars

\* the audio position advances at timer rate whenever the audio plays
SpecIdeal == Init /\ [][NextIdeal]_vars

\* -------------------------------------------------------- the loading ----
\* The index listings the server may hold: stories in any order, each at
\* most once.
Listings ==
  {l \in UNION {[1..n -> StoryIds] : n \in 0..Cardinality(StoryIds)} :
     \A i, j \in DOMAIN l : l[i] = l[j] => i = j}

\* a faulty loop: every document is requested at once
nextFetches_allAtOnce(listing, done) ==
  IF done = 0 THEN DOMAIN listing ELSE {}

\* the loop of lines 135-139 with `done` documents pushed: it requests the next
\* document of the listing and awaits it
nextFetches(listing, done) ==
  IF done < Len(listing) THEN {done + 1} ELSE {}

\* the state before the main function has run
InitLoad ==
  /\ Is(Fresh)
  /\ boot = BootStart
  /\ lastOp = Op("init", NoStory, NoCue, FALSE, FALSE)
  /\ fires = NoFires
  /\ cycle = NoCycle

\* lines 132-133: the index has arrived and is parsed; the loop starts
IndexFetched(listing) ==
  /\ boot.pc = "fetchIndex"
  /\ boot' = [boot EXCEPT !.storyIndex = listing,
                          !.inFlight = nextFetches(listing, 0),
                          !.pc = IF listing = << >> THEN "loaded" ELSE "fetchStory"]
  /\ Becomes(St)
  /\ UNCHANGED << lastOp, fires, cycle >>

\* lines 136-138: the document at place k of the listing has arrived and is
\* pushed; the loop goes on, or the table is populated (lines 142-168)
StoryFetched(k) ==
  /\ boot.pc = "fetchStory" /\ k \in boot.inFlight
  /\ LET s1 == [St EXCEPT !.stories = Append(@, boot.storyIndex[k])]
     IN  /\ Becomes(s1)
         /\ boot' = [boot EXCEPT
                       !.inFlight = (@ \ {k}) \cup nextFetches(boot.storyIndex, Len(s1.stories)),
                       !.pc = IF Len(s1.stories) = Len(boot.storyIndex)
                              THEN "loaded" ELSE "fetchStory"]
  /\ UNCHANGED << lastOp, fires, cycle >>

\* a fetch or the parsing of its answer fails: the await throws, the promise
\* of the main function is rejected
FetchFails ==
  /\ boot.pc \in {"fetchIndex", "fetchStory"}
  /\ boot' = [boot EXCEPT !.pc = "failed", !.inFlight = {}]
  /\ Becomes(St)
  /\ UNCHANGED << lastOp, fires, cycle >>

\* lines 191-192: selectStory(0), then startClock() unless selectStory threw
MainAfterLoad ==
  /\ boot.pc = "loaded"
  /\ Becomes(selectStory(St, 0))
  /\ boot' = IF selectStoryThrows(St, 0)
             THEN [boot EXCEPT !.pc = "failed"]
             ELSE [boot EXCEPT !.pc = "running", !.clockStarted = TRUE]
  /\ UNCHANGED << lastOp, fires, cycle >>

NextLoad ==
  \/ \E listing \in Listings : IndexFetched(listing)
  \/ \E k \in DOMAIN boot.storyIndex : StoryFetched(k)
  \/ FetchFails
  \/ MainAfterLoad
  \/ Render
  \/ BlinkStart
  \/ BlinkEnd
  \/ MouthClose
  \/ MouthOpen

\* the start of the page: the loading, then the animation clock
SpecLoad == InitLoad /\ [][NextLoad]_vars

\* clicks, pause() and resume(), with the animation clock
NextPage ==
  \/ \E index \in Indices : StoryButtonClick(index)
  \/ \E index \in {NoStory, Len(stories)} : SelectStoryOutOfRange(index)
  \/ PauseAudio
  \/ ResumeAudio
  \/ \E t \in timers : FireCue(t)
  \/ FireClear
  \/ AudioEnded
  \/ Tick
  \/ Render
  \/ BlinkStart
  \/ BlinkEnd
  \/ MouthClose
  \/ MouthOpen

SpecPage == InitPage /\ [][NextPage]_vars


\* ------------------------------------------------------------ claims ----
TimersOf(ref) == {t \in timers : t.cue = ref}

\* C1: in every reachable state there is at most one pending trigger per
\* cue, and every pending trigger belongs to a cue whose consumed flag is
\* false.
C1_OnePendingTriggerPerUnconsumedCue ==
  \A ref \in AllCues :
    /\ Cardinality(TimersOf(ref)) <= 1
    /\ TimersOf(ref) # {} => ~consumed[ref]

\* resume() ran on a scheduler that was playing with triggers pending, and
\* again one trigger per armed cue is pending
C1_Witness ==
  /\ lastOp.op = "resume" /\ lastOp.pending
  /\ cycle.armed # {}
  /\ \A ref \in cycle.armed : Cardinality(TimersOf(ref)) = 1

\* C2: between two story selections each cue's trigger runs at most once, and
\* once it has run no trigger is armed for that cue again.
C2_EachCueFiresAtMostOncePerSession ==
  \A ref \in AllCues :
    /\ fires[ref] <= 1
    /\ fires[ref] = 1 => TimersOf(ref) = {}

\* a resume() that armed triggers found a cue that had fired although the
\* audio position is still before the cue's time: only `consumed` keeps it
\* from being armed again
C2_Witness ==
  /\ lastOp.op = "resume" /\ cycle.open /\ cycle.elapsed = 0
  /\ \E ref \in Range(emotionSchedule) :
       fires[ref] = 1 /\ Cue(ref).time > cycle.pos

\* C3: while no pause(), selectStory() or re-arming follows a resume(), every
\* cue the resume found unconsumed and later than the audio position has
\* exactly one trigger; the trigger runs when the delay time - position has
\* elapsed since the resume and not before; the cue is consumed from then on
\* and not before; the trigger activates the overlay for the cue's emotion.
C3_ArmedCue(ref) ==
  LET delay == Cue(ref).time - cycle.pos
  IN  IF cycle.elapsed < delay \/ TimersOf(ref) # {}
      THEN /\ cycle.elapsed <= delay
           /\ ~consumed[ref] /\ fires[ref] = 0
           /\ \E t \in timers : TimersOf(ref) = {t} /\ t.rem = delay - cycle.elapsed
      ELSE consumed[ref] /\ fires[ref] = 1

C3_TriggerRuns(ref) ==
  /\ lastOp' = Event("cue", ref)
  /\ cycle.open /\ ref \in cycle.armed

C3_Activation(ref) ==
  /\ cycle.elapsed = Cue(ref).time - cycle.pos
  /\ ~consumed[ref] /\ consumed'[ref]
  /\ Cue(ref).emotion \in DOMAIN emotionImageMap =>
       /\ currentEmotion' = Cue(ref).emotion
       /\ faceImage' = emotionImageMap[Cue(ref).emotion]
       /\ Len(clearTimers') = Len(clearTimers) + 1

C3_ArmedCueFiresOnceAtItsDelay ==
  /\ [](cycle.open => \A ref \in cycle.armed : C3_ArmedCue(ref))
  /\ [][\A ref \in AllCues : C3_TriggerRuns(ref) => C3_Activation(ref)]_vars

\* the trigger of a cue armed by the last resume() has just run, time -
\* position after that resume, and the overlay shows the cue's emotion
C3_Witness ==
  /\ cycle.open
  /\ lastOp.op = "cue" /\ lastOp.cue \in cycle.armed
  /\ cycle.elapsed = Cue(lastOp.cue).time - cycle.pos
  /\ consumed[lastOp.cue]
  /\ Cue(lastOp.cue).emotion \in DOMAIN emotionImageMap
  /\ currentEmotion = Cue(lastOp.cue).emotion

\* C4: a cue whose time is not later than the audio position read by a
\* resume() has no trigger during the cycle of that resume (until the next
\* resume that arms, or story selection), does not fire in it and keeps its
\* consumed flag.
C4_Skipped == {ref \in Range(emotionSchedule) : Cue(ref).time <= cycle.pos}

C4_SameCycle ==
  cycle.live /\ cycle'.live /\ lastOp'.op \notin {"resume", "pauseResume", "click"}

C4_PassedCueIsSkipped ==
  /\ [](cycle.live => \A ref \in C4_Skipped : TimersOf(ref) = {})
  /\ [][C4_SameCycle =>
          \A ref \in C4_Skipped :
            /\ consumed'[ref] = consumed[ref]
            /\ fires'[ref] = fires[ref]
            /\ lastOp'.cue # ref]_vars

\* time has passed since a resume() at a position past 0 that found an
\* unconsumed cue exactly at the position: the cue is still unconsumed
C4_Witness ==
  /\ cycle.open /\ cycle.pos > 0 /\ cycle.elapsed > 0
  /\ \E ref \in C4_Skipped : Cue(ref).time = cycle.pos /\ ~consumed[ref]

\* C5: pause() cancels every pending trigger without running it: after it no
\* trigger is pending, no consumed flag has changed, and no trigger runs
\* until the next resume().
C5_PauseCancelsWithoutFiring ==
  /\ [](isPaused => timers = {})
  /\ [][lastOp'.op = "pause" =>
          /\ timers' = {} /\ timeouts' = << >>
          /\ consumed' = consumed /\ fires' = fires
          /\ currentEmotion' = currentEmotion /\ clearTimers' = clearTimers]_vars
  /\ [][isPaused => lastOp'.op # "cue"]_vars

\* pause() ran with triggers pending: none is pending and the cues later than
\* the position are unconsumed
C5_Witness ==
  /\ lastOp.op = "pause" /\ lastOp.pending
  /\ timers = {}
  /\ \E ref \in Range(emotionSchedule) :
       Cue(ref).time > currentTime /\ ~consumed[ref]

\* C6: selectStory(j) cancels all pending triggers: after it no trigger is
\* pending, and a trigger that runs belongs to a cue of the installed story.
C6_SelectStoryCancelsPending ==
  /\ lastOp.op = "selectStory" => timers = {}
  /\ lastOp.op = "cue" => lastOp.cue \in Range(emotionSchedule)

\* C7: right after selectStory(i) (also as the first step of a click) the
\* installed schedule is the cue sequence of story i as authored and every
\* cue of it is unconsumed.
C7_SelectInstallsUnconsumedSchedule ==
  lastOp.op \in {"selectStory", "click"} =>
    /\ [j \in DOMAIN emotionSchedule |-> Cue(emotionSchedule[j])]
         = Stories[lastOp.story].emotions
    /\ \A j \in DOMAIN emotionSchedule :
         emotionSchedule[j][1] = lastOp.story /\ ~consumed[emotionSchedule[j]]

\* selectStory(i) ran on a story with consumed cues
C7_Witness ==
  /\ lastOp.op = "selectStory" /\ lastOp.wasConsumed
  /\ \A ref \in Range(Emotions(lastOp.story)) : ~consumed[ref]

\* C8: while the auto-clear of the newest activation has not run, the overlay
\* is not none: the auto-clear of an earlier activation does not clear it.
C8_StaleClearKeepsNewerOverlay ==
  (clearTimers # << >> /\ clearTimers[Len(clearTimers)] > 0) =>
    currentEmotion # Null

\* C9: the trigger of a cue whose emotion is no key of emotionImageMap leaves
\* the overlay emotion and the displayed image as they are and sets no timer.
C9_UnmappedActivationIsNoOp ==
  [][\A ref \in AllCues :
       (lastOp' = Event("cue", ref) /\ Cue(ref).emotion \notin DOMAIN emotionImageMap)
         => /\ currentEmotion' = currentEmotion
            /\ faceImage' = faceImage
            /\ clearTimers' = clearTimers]_vars

\* C10 (audio advancing at timer rate, SpecIdeal): within a resume cycle a
\* trigger runs when the audio position is the cue's time, and time - position
\* of the last resume after that resume: delays do not add up over pauses.
C10_FiresAtCueTime ==
  (lastOp.op = "cue" /\ cycle.live) =>
    /\ currentTime = Cue(lastOp.cue).time
    /\ cycle.open /\ cycle.elapsed = Cue(lastOp.cue).time - cycle.pos

\* resume(), pause() at position 500, resume(): the cue at time 1000 has fired
\* at position 1000, 500 after the second resume
C10_Witness ==
  /\ lastOp.op = "cue" /\ Cue(lastOp.cue).time = 1000
  /\ cycle.afterPause /\ cycle.pos = 500 /\ cycle.elapsed = 500
  /\ currentTime = 1000

\* the pending (cue, remaining delay) pairs
Pairs(ts) == {<< t.cue, t.rem >> : t \in ts}

\* pause() and resume() run back to back on a playing scheduler that has not
\* ended
C11_Step == audioPlaying /\ ~isPaused /\ ~hasEnded /\ lastOp'.op = "pauseResume"

\* every pending trigger is as far from running as the audio position is from
\* the cue's time, and none is due
C11_InStep == \A t \in timers : t.rem > 0 /\ t.rem = Cue(t.cue).time - currentTime

\* C11 as stated: pause() immediately followed by resume() leaves the pending
\* (cue, remaining delay) pairs that were pending before the pause().
C11_PauseResumeSamePairs ==
  [][C11_Step => Pairs(timers') = Pairs(timers)]_vars

\* C11 amended: pause() immediately followed by resume() leaves the audio
\* position as it is and one pending trigger per unconsumed cue later than the
\* position, with delay time - position; these are the pairs pending before
\* the pause() when every trigger pending then had time - position left.
C11_PauseResumeRearmsFromPosition ==
  [][C11_Step =>
       /\ currentTime' = currentTime /\ consumed' = consumed
       /\ Pairs(timers') =
            {<< ref, Cue(ref).time - currentTime >> :
               ref \in {r \in Range(emotionSchedule) :
                          ~consumed[r] /\ Cue(r).time > currentTime}}
       /\ Cardinality(timers') = Cardinality(Pairs(timers'))
       /\ C11_InStep => Pairs(timers') = Pairs(timers)]_vars

\* pause() and resume() ran back to back at a position past 0, where the
\* cues up to the position had fired and the later ones had not: a trigger is
\* pending for each later cue, with time - position left
C11_Witness ==
  /\ lastOp.op = "pauseResume" /\ lastOp.pending /\ cycle.open
  /\ audioPlaying /\ currentTime > 0
  /\ \A ref \in Range(emotionSchedule) :
       IF Cue(ref).time > currentTime
       THEN fires[ref] = 0 /\ \E t \in TimersOf(ref) : t.rem = Cue(ref).time - currentTime
       ELSE Cue(ref).time > 0 => fires[ref] = 1
  /\ timers # {}

\* C12: once the ended listener has run, resume() starts no playback, arms no
\* trigger and leaves keepMouthShut as it is, and hasEnded stays set until a
\* story is selected.
C12_ResumeAfterEndedIsNoOp ==
  /\ [][(hasEnded /\ lastOp'.op = "resume") =>
          /\ audioPlaying' = audioPlaying /\ currentTime' = currentTime
          /\ timers' = timers /\ timeouts' = timeouts
          /\ keepMouthShut' = keepMouthShut /\ hasEnded']_vars
  /\ [][(hasEnded /\ lastOp'.op \notin {"selectStory", "click"}) => hasEnded']_vars

\* resume() ran after the audio had ended: the audio is at its end and does
\* not play, no trigger is pending and keepMouthShut is set
C12_Witness ==
  /\ lastOp.op = "resume" /\ hasEnded
  /\ ~audioPlaying /\ currentTime = Stories[audioSrc].duration
  /\ timers = {} /\ keepMouthShut /\ ~isPaused
  /\ \E ref \in Range(emotionSchedule) : ~consumed[ref]

\* C13: selectStory(i) leaves the Ended state, and a resume() that follows
\* selectStory(i) starts the audio and arms a trigger for every cue of story i
\* later than the audio position.
C13_SelectStoryLeavesEnded ==
  /\ [][(hasEnded /\ lastOp'.op = "selectStory") => ~hasEnded']_vars
  /\ [][(lastOp.op = "selectStory" /\ lastOp'.op = "resume") =>
          /\ audioPlaying'
          /\ \A ref \in Range(Emotions(lastOp.story)) :
               Cue(ref).time > currentTime' => \E t \in timers' : t.cue = ref]_vars

\* C14: the ended listener sets keepMouthShut and hasEnded and leaves no cue
\* trigger pending, and from then to the next story selection no cue trigger
\* runs.
C14_EndedCancelsTriggers ==
  /\ [][lastOp'.op = "ended" => (keepMouthShut' /\ hasEnded' /\ timers' = {})]_vars
  /\ [][(hasEnded /\ cycle.live) => lastOp'.op # "cue"]_vars

\* C15: selectStory(i) with i outside the loaded stories throws and changes
\* nothing: schedule, consumed flags, audio, pending triggers and flags are
\* those before the call.
C15_OutOfRangeSelectChangesNothing ==
  [][lastOp'.op = "selectStoryThrew" =>
       /\ emotionSchedule' = emotionSchedule /\ consumed' = consumed
       /\ audioSrc' = audioSrc /\ currentTime' = currentTime
       /\ audioPlaying' = audioPlaying
       /\ timers' = timers /\ timeouts' = timeouts
       /\ isPaused' = isPaused /\ hasEnded' = hasEnded
       /\ keepMouthShut' = keepMouthShut]_vars

\* selectStory(i) with i out of range threw while the audio was playing with
\* a trigger pending and a cue consumed: the audio plays on and the schedule
\* is in place
C15_Witness ==
  /\ lastOp.op = "selectStoryThrew" /\ lastOp.pending
  /\ audioPlaying /\ timers # {}
  /\ emotionSchedule = Emotions(audioSrc) /\ emotionSchedule # << >>
  /\ \E ref \in Range(emotionSchedule) : consumed[ref]

\* C16: when the loading has failed or has ended with no story, the animation
\* clock is started, no story is installed and no trigger is armed.
C16_ClockRunsWithoutStories ==
  boot.pc = "failed" =>
    /\ boot.clockStarted
    /\ emotionSchedule = << >> /\ audioSrc = NoStory /\ timers = {}

\* C17: after the loading CONFIG.stories is the listing of the index, document
\* by document; while it runs the stories pushed are the first ones of the
\* listing and at most one fetch is under way.
C17_CatalogInIndexOrder ==
  /\ boot.pc \in {"loaded", "running"} => stories = boot.storyIndex
  /\ Len(stories) <= Len(boot.storyIndex)
  /\ \A k \in DOMAIN stories : stories[k] = boot.storyIndex[k]
  /\ Cardinality(boot.inFlight) <= 1

\* a listing of all three stories that does not start with story 0 is loaded
C17_Witness ==
  /\ boot.pc = "running"
  /\ Len(boot.storyIndex) = Cardinality(StoryIds) /\ boot.storyIndex[1] # 0
  /\ stories = boot.storyIndex

\* C18: whenever the overlay emotion is not none, the image displayed is the
\* image emotionImageMap holds for it, and a render tick that runs then
\* leaves the displayed image as it is.
C18_OverlayPrecedence ==
  /\ [](currentEmotion # Null =>
          /\ currentEmotion \in DOMAIN emotionImageMap
          /\ faceImage = emotionImageMap[currentEmotion])
  /\ [][(lastOp'.op = "render" /\ currentEmotion # Null) => faceImage' = faceImage]_vars

\* the compositions with the mouth closed and with the mouth open
MouthClosedImages == {faceImages.blinkingClosed, faceImages.normalClosed}
MouthOpenImages == {faceImages.blinkingOpen, faceImages.normalOpen}

\* C19: from pause() to the next resume() a render tick leaves the displayed
\* image as it is.
C19_PausedRenderWritesNothing ==
  [][(isPaused /\ lastOp'.op = "render") => faceImage' = faceImage]_vars

\* the scheduler was paused while an overlay was shown, the overlay has been
\* cleared during the pause, a blink has started and a render tick has run:
\* the overlay image is still displayed
C19_Witness ==
  /\ isPaused /\ lastOp.op = "render"
  /\ currentEmotion = Null /\ blinking
  /\ faceImage = emotionImageMap.joie

\* C20: pause() called with no overlay active and a blink / mouth composition
\* on the display leaves a composition with the mouth closed on it, and no
\* composition with the mouth open is displayed after a render tick of the
\* pause.
C20_PauseShowsMouthClosed ==
  /\ [][(/\ lastOp'.op = "pause" /\ currentEmotion = Null
          /\ faceImage \in MouthClosedImages \cup MouthOpenImages) =>
          faceImage' \in MouthClosedImages]_vars
  /\ []((isPaused /\ lastOp.op = "render") => faceImage \notin MouthOpenImages)

\* cues with mapped emotions that the last resume() armed for the same time
C21_Ties ==
  {p \in cycle.armed \X cycle.armed :
     /\ p[1] # p[2] /\ Cue(p[1]).time = Cue(p[2]).time
     /\ Cue(p[1]).emotion \in DOMAIN emotionImageMap
     /\ Cue(p[2]).emotion \in DOMAIN emotionImageMap}

\* C21: while no pause(), selectStory() or re-arming follows a resume(), two
\* cues it armed for the same time have a trigger each, with the same
\* remaining delay; both triggers run when that delay has elapsed, both cues
\* are consumed then, and when the second one runs the overlay becomes its
\* emotion.
C21_EqualTimeCuesBothFire ==
  /\ [](cycle.open =>
          \A p \in C21_Ties :
            /\ C3_ArmedCue(p[1]) /\ C3_ArmedCue(p[2])
            /\ \A t \in TimersOf(p[1]), u \in TimersOf(p[2]) :
                 t.id # u.id /\ t.rem = u.rem)
  /\ [][(cycle.open /\ lastOp'.op = "cue") =>
          \A p \in C21_Ties :
            (lastOp'.cue = p[2] /\ consumed[p[1]]) =>
               /\ cycle.elapsed = Cue(p[2]).time - cycle.pos
               /\ fires'[p[1]] = 1 /\ fires'[p[2]] = 1
               /\ consumed'[p[1]] /\ consumed'[p[2]]
               /\ currentEmotion' = Cue(p[2]).emotion
               /\ faceImage' = emotionImageMap[Cue(p[2]).emotion]]_vars

\* of two cues armed for the same time the one that is first in the schedule
\* has run last: both are consumed and the overlay is its emotion
C21_Witness ==
  /\ cycle.open /\ lastOp.op = "cue"
  /\ \E p \in C21_Ties :
       /\ lastOp.cue = p[2] /\ p[2][2] < p[1][2]
       /\ consumed[p[1]] /\ consumed[p[2]]
       /\ currentEmotion = Cue(p[2]).emotion

\* C22: on a page where stories are selected by clicks, every pending trigger
\* belongs to a cue of the story clicked last (right after the click and
\* later), and every trigger that runs is one of a cue of that story.
C22_ClickLeavesOnlyItsStory ==
  /\ [](\A t \in timers : t.cue[1] = audioSrc /\ t.cue \in Range(emotionSchedule))
  /\ [][lastOp'.op = "click" =>
          /\ audioSrc' = lastOp'.story /\ ~hasEnded'
          /\ \A t \in timers' : t.cue[1] = lastOp'.story]_vars
  /\ [][lastOp'.op = "cue" =>
          lastOp'.cue[1] = audioSrc /\ lastOp'.cue \in Range(emotionSchedule)]_vars

\* the button of the short story was clicked while the second trigger of
\* story 0 was pending, right after its first trigger had run
C22_Witness ==
  /\ lastOp.op = "click" /\ lastOp.pending /\ lastOp.story # 0
  /\ consumed[<<0, 1>>] /\ ~consumed[<<0, 2>>]
  /\ currentEmotion = Cue(<<0, 1>>).emotion /\ clearTimers = <<emotionDelay>>
  /\ timers # {} /\ \A t \in timers : t.cue[1] = lastOp.story

\* C23: a resume() called after the ended listener has run leaves isPaused,
\* keepMouthShut, hasEnded, the pending triggers, every consumed flag and the
\* overlay emotion as they are.
C23_ResumeInEndedChangesNothing ==
  [][(hasEnded /\ lastOp'.op = "resume") =>
       /\ isPaused' = isPaused /\ keepMouthShut' = keepMouthShut
       /\ hasEnded' = hasEnded
       /\ timers' = timers /\ consumed' = consumed
       /\ currentEmotion' = currentEmotion]_vars

\* the auto-clear of the newest activation has not run and is not due
C24_NewestClearAhead ==
  clearTimers # << >> /\ clearTimers[Len(clearTimers)] > 0

\* an activation with a mapped emotion sets the overlay and an auto-clear due
\* emotionDelay later
C24_Activation ==
  [][\A ref \in AllCues :
       (lastOp' = Event("cue", ref) /\ Cue(ref).emotion \in DOMAIN emotionImageMap)
         => /\ currentEmotion' = Cue(ref).emotion
            /\ clearTimers' # << >>
            /\ clearTimers'[Len(clearTimers')] = emotionDelay]_vars

\* once every auto-clear has run the overlay is none
C24_NoneAfterwards == [](clearTimers = << >> => currentEmotion = Null)

\* C24: an activation with a mapped emotion sets an auto-clear due exactly
\* emotionDelay later; until then no step but a later activation changes the
\* overlay emotion (no pause(), no selectStory(), no other timer), and once
\* the auto-clears have run the overlay is none.
C24_OverlayLastsEmotionDelay ==
  /\ C24_Activation
  /\ [][(lastOp'.op # "cue" /\ C24_NewestClearAhead) =>
          currentEmotion' = currentEmotion]_vars
  /\ C24_NoneAfterwards

\* C25: pause() and selectStory() leave no overlay timer pending, and the
\* step after such a call is never the callback of an overlay timer (it would
\* be one that was pending at the call).
C25_OverlayTimersRevoked ==
  /\ [][lastOp'.op \in {"pause", "selectStory"} => clearTimers' = << >>]_vars
  /\ [][lastOp.op \in {"pause", "selectStory"} => lastOp'.op # "clear"]_vars

\* C26: on the page (clicks, pause(), resume(), ended events) keepMouthShut
\* is false only while isPaused and hasEnded are false, and a render tick that
\* runs while isPaused or hasEnded is set writes no mouth-open image.
C26_MouthFreeOnlyWhilePlaying ==
  /\ [](~keepMouthShut => (~isPaused /\ ~hasEnded))
  /\ [][(lastOp'.op = "render" /\ (isPaused \/ hasEnded)) =>
          (faceImage' = faceImage \/ faceImage' \in MouthClosedImages)]_vars

\* the audio has ended (no pause() since) and a render tick has run in the
\* open phase of the mouth cycle: it has written a mouth-closed image
C26_Witness ==
  /\ lastOp.op = "render" /\ hasEnded /\ ~isPaused /\ keepMouthShut
  /\ ~closedMouth /\ currentEmotion = Null
  /\ faceImage \in MouthClosedImages

\* the cues whose emotion is no key of emotionImageMap
C27_Unmapped == {ref \in AllCues : Cue(ref).emotion \notin DOMAIN emotionImageMap}

\* the trigger of such a cue sets its consumed flag, and a consumed cue has no
\* trigger (until selectStory resets the flag)
C27_ConsumedNotRearmed ==
  /\ [][\A ref \in C27_Unmapped : lastOp' = Event("cue", ref) => consumed'[ref]]_vars
  /\ [](\A ref \in C27_Unmapped : consumed[ref] => TimersOf(ref) = {})

\* C27: the trigger of a cue whose emotion is no key of emotionImageMap sets
\* the cue's consumed flag and leaves the overlay emotion and the displayed
\* image as they are; the cue has no trigger again while it is consumed.
C27_UnmappedCueConsumedSilently ==
  /\ C27_ConsumedNotRearmed
  /\ [][\A ref \in C27_Unmapped :
          lastOp' = Event("cue", ref) =>
            (currentEmotion' = currentEmotion /\ faceImage' = faceImage)]_vars

\* the image of the table for (blinking, mouth closed)
C28_Composition(blink, closed) ==
  CASE blink /\ closed -> faceImages.blinkingClosed
    [] blink /\ ~closed -> faceImages.blinkingOpen
    [] ~blink /\ closed -> faceImages.normalClosed
    [] ~blink /\ ~closed -> faceImages.normalOpen

\* C28: a render tick that runs while isPaused is false and no overlay is
\* active writes the image of the table for (blinking, closedMouth or
\* keepMouthShut); the four images of the table are distinct, and whatever a
\* render tick writes is one of them.
C28_RenderIsTwoByTwoLookup ==
  /\ [][(lastOp'.op = "render" /\ ~isPaused /\ currentEmotion = Null) =>
          faceImage' = C28_Composition(blinking, closedMouth \/ keepMouthShut)]_vars
  /\ [][lastOp'.op = "render" =>
          (faceImage' = faceImage \/ faceImage' \in Range(faceImages))]_vars
  /\ [](\A a, b \in DOMAIN faceImages : faceImages[a] = faceImages[b] => a = b)

\* the render tick has run during a blink while the audio plays and the mouth
\* cycle is in its open phase: the blinking-open image is displayed
C28_Witness ==
  /\ lastOp.op = "render" /\ ~isPaused /\ currentEmotion = Null
  /\ audioPlaying /\ blinking /\ ~closedMouth /\ ~keepMouthShut
  /\ faceImage = faceImages.blinkingOpen

====
